---- MODULE Spec2Model ----
(***************************************************************************)
(* ParasitePro detection pipeline: confidence calibration                  *)
(* (services/aiAnalysis.js) and the two POST /upload handlers              *)
(* (routes/analysisRoutes.js, awaited; backend/src/routes/analysis.ts,     *)
(* detached) with their credit debit / refund bookkeeping.                 *)
(*                                                                         *)
(* Confidences are fixed-point hundredths: 0.35 is 35, 0.99 is 99.  Every  *)
(* constant of the calibration code is a multiple of 0.01, so the tables   *)
(* and comparisons are exact on this grid.                                 *)
(*                                                                         *)
(* A JavaScript value that may be undefined is a sequence of length 0 or   *)
(* 1: << >> is undefined, <<v>> is the value v.                            *)
(***************************************************************************)
EXTENDS Integers, Sequences, FiniteSets, TLC

\* ------------------------------------------------------------------ bounds
\* largest provider-reported confidence, in hundredths
MaxRaw == 100
\* number of upload requests in flight
MaxRequests == 2
\* largest initial credit balance
MaxCredits == 2
\* largest number of reliable detections an analysis returns
MaxDetections == 2
\* longest detections list a provider response carries
MaxList == 3
\* most applications of recalibrateResult to one result
MaxRecalibrations == 2
\* most credits one payment intent buys
MaxIntentCredits == 2
\* concurrent create requests for the share link of one analysis
MaxShareRequests == 3

VARIABLES
  \* --- assessImageQuality (services/imagePreprocessing.js)
  buffer,         \* what sharp measures on the uploaded image
  qpc,            \* position in assessImageQuality
  qualityReport,  \* << >>, or <<q>> the report assessImageQuality returned
  \* --- calibration (services/aiAnalysis.js)
  imageQuality,   \* the quality report's qualityLabel, << >> when absent
  detection,      \* the provider's raw detection
  enriched,       \* << >>, or <<d>> with d the calibrated detection
  \* --- analyzeImage (services/aiAnalysis.js, backend/src/services/aiAnalysis.ts)
  impl,               \* which analyzeImage runs: "service" or "backend"
  hasFallbackKey,     \* process.env.OPENAI_API_KEY is set
  providerDetections, \* the detections array of a well-formed provider reply
  apc,                \* position in analyzeImage
  callLog,            \* the provider calls made so far, with their arguments
  primaryFailed,      \* the primary attempt threw
  aiResult,           \* << >>, or <<payload>> the parsed provider reply
  result,             \* << >>, or <<r>> the value analyzeImage returned
  recalibrated,       \* the successive values of recalibrateResult, with the quality passed
  \* --- database
  credits,        \* users.image_credits of the one user
  analyses,       \* request -> status of the analyses row it created
  detections,     \* request -> committed detections rows of its analysis
  userLock,       \* holder of the row lock on the user's row, 0 when free
  \* --- one upload request
  handler,        \* which POST /upload is deployed: "sync" or "detached"
  userExists,     \* whether the users row of the authenticated id exists
  pc,             \* request -> position in the handler
  readCredits,    \* request -> image_credits as the request's SELECT saw it
  aiDetections,   \* request -> number of detections analyzeImage returned
  inserted,       \* request -> detections INSERTed so far by the request
  response,       \* request -> HTTP status sent, 0 before the response
  \* --- history
  initCredits,    \* the balance before any request
  debited,        \* request -> credits it took from the balance
  refunded,       \* request -> credits it gave back
  aiFailed,       \* request -> analyzeImage threw / rejected
  lockTaken,      \* request -> it has issued a statement locking the user's row
  \* --- POST /payment/confirm (backend/src/routes/analysis.ts)
  intent,          \* the Stripe payment intent the requests name
  paymentRows,     \* committed payments rows with the intent's id
  confirmPc,       \* request -> position in the handler
  confirmResponse, \* request -> HTTP status sent, 0 before the response
  \* --- POST /api/share/:analysisId (routes/shareRoutes.js)
  ownsAnalysis,    \* the analysis belongs to the authenticated user
  sharedResults,   \* request -> state of the shared_results row it inserted
  sharePc,         \* request -> position in the handler
  shareResponse    \* request -> <<status, token>> sent, << >> before

pipeVars == <<impl, hasFallbackKey, providerDetections, apc, callLog, primaryFailed,
              aiResult, result, recalibrated>>
qualVars == <<buffer, qpc, qualityReport>>
payVars == <<intent, paymentRows, confirmPc, confirmResponse>>
shareVars == <<ownsAnalysis, sharedResults, sharePc, shareResponse>>
sideVars == <<payVars, shareVars>>
calibVars == <<imageQuality, detection, enriched, pipeVars, qualVars, sideVars>>
dbVars == <<credits, analyses, detections, userLock>>
reqVars == <<handler, userExists, pc, readCredits, aiDetections, inserted, response>>
histVars == <<initCredits, debited, refunded, aiFailed, lockTaken>>
vars == <<calibVars, dbVars, reqVars, histVars>>

\* ------------------------------------------------------------ JS helpers
Undefined == << >>
Some(v) == <<v>>

\* obj[key] on an object literal
Lookup(table, key) ==
  IF key # Undefined /\ key[1] \in DOMAIN table THEN Some(table[key[1]]) ELSE Undefined

\* a || b for a number-or-undefined a: undefined and 0 are falsy
JsOr(a, b) == IF a = Undefined \/ a[1] = 0 THEN b ELSE a[1]

\* { ...obj, key: value, ... }
Spread(obj, fields) ==
  [k \in DOMAIN obj \cup DOMAIN fields |->
     IF k \in DOMAIN fields THEN fields[k] ELSE obj[k]]

\* obj.key: undefined when the object has no such property
Field(obj, key) == IF key \in DOMAIN obj THEN obj[key] ELSE Undefined

\* strings whose characters the code inspects are sequences of characters
UpperCase == <<"A", "B", "C", "D", "E", "F", "G", "H", "I", "J", "K", "L", "M", "N", "O", "P", "Q", "R", "S", "T", "U", "V", "W", "X", "Y", "Z">>
LowerCase == <<"a", "b", "c", "d", "e", "f", "g", "h", "i", "j", "k", "l", "m", "n", "o", "p", "q", "r", "s", "t", "u", "v", "w", "x", "y", "z">>

\* String.prototype.toLowerCase
toLowerCase(s) ==
  [i \in 1..Len(s) |->
     IF \E k \in 1..Len(UpperCase) : UpperCase[k] = s[i]
     THEN LowerCase[CHOOSE k \in 1..Len(UpperCase) : UpperCase[k] = s[i]]
     ELSE s[i]]

\* String.prototype.includes
includes(s, t) ==
  \E i \in 0..(Len(s) - Len(t)) : SubSeq(s, i + 1, i + Len(t)) = t

\* s?.toLowerCase() || ''
lowerOrEmpty(s) == IF s = Undefined THEN << >> ELSE toLowerCase(s[1])

Max(a, b) == IF a >= b THEN a ELSE b
Min(a, b) == IF a <= b THEN a ELSE b

\* ----------------------------------------------------------- calibration
qualityPenalty == [excellent |-> 0, good |-> 2, fair |-> 8, poor |-> 18]
DefaultPenalty == 5
ConfidenceFloor == 35
ConfidenceCeiling == 99

\* the calibration with the penalty added instead of subtracted
calibrateConfidenceBoost(rawConfidence, quality) ==
  LET penalty == JsOr(Lookup(qualityPenalty, quality), DefaultPenalty)
      calibrated == rawConfidence + penalty
  IN  Max(ConfidenceFloor, Min(ConfidenceCeiling, calibrated))

\* the calibration without the floor
calibrateConfidenceNoFloor(rawConfidence, quality) ==
  LET penalty == JsOr(Lookup(qualityPenalty, quality), DefaultPenalty)
      calibrated == rawConfidence - penalty
  IN  Min(ConfidenceCeiling, calibrated)

calibrateConfidence(rawConfidence, quality) ==
  LET penalty == JsOr(Lookup(qualityPenalty, quality), DefaultPenalty)
      calibrated == rawConfidence - penalty
  IN  Max(ConfidenceFloor, Min(ConfidenceCeiling, calibrated))

\* the threshold table falling as quality falls
thresholdsFalling == [excellent |-> 72, good |-> 60, fair |-> 50, poor |-> 45]

thresholds == [excellent |-> 45, good |-> 50, fair |-> 60, poor |-> 72]
DefaultThreshold == 55

\* the reliability test with a strict comparison
isDetectionReliableStrict(confidenceScore, quality) ==
  LET threshold == JsOr(Lookup(thresholds, quality), DefaultThreshold)
  IN  confidenceScore > threshold

isDetectionReliable(confidenceScore, quality) ==
  LET threshold == JsOr(Lookup(thresholds, quality), DefaultThreshold)
  IN  confidenceScore >= threshold

DefaultRawConfidence == 50

\* the label cascade with strict comparisons
confidenceLabelStrict(calibratedConfidence) ==
  IF calibratedConfidence > 85 THEN "high"
  ELSE IF calibratedConfidence > 65 THEN "moderate"
  ELSE IF calibratedConfidence > 45 THEN "low"
  ELSE "insufficient"

confidenceLabel(calibratedConfidence) ==
  IF calibratedConfidence >= 85 THEN "high"
  ELSE IF calibratedConfidence >= 65 THEN "moderate"
  ELSE IF calibratedConfidence >= 45 THEN "low"
  ELSE "insufficient"

\* entries of the encyclopedia, in the array's order: giardia-001 and
\* blastocystis-001 are its first two, enterobius-001 precedes
\* strongyloides-001; holistic stands for the entry's treatment object
PARASITE_DATABASE == <<
  [id |-> "giardia-001",
   commonName |-> <<"G", "i", "a", "r", "d", "i", "a">>,
   scientificName |-> <<"G", "i", "a", "r", "d", "i", "a", " ", "l", "a", "m", "b", "l", "i", "a", " ", "(", "G", "i", "a", "r", "d", "i", "a", " ", "i", "n", "t", "e", "s", "t", "i", "n", "a", "l", "i", "s", ")">>,
   holistic |-> [of |-> "giardia-001"]],
  [id |-> "blastocystis-001",
   commonName |-> <<"B", "l", "a", "s", "t", "o", "c", "y", "s", "t", "i", "s">>,
   scientificName |-> <<"B", "l", "a", "s", "t", "o", "c", "y", "s", "t", "i", "s", " ", "h", "o", "m", "i", "n", "i", "s">>,
   holistic |-> [of |-> "blastocystis-001"]],
  [id |-> "enterobius-001",
   commonName |-> <<"P", "i", "n", "w", "o", "r", "m", " ", "/", " ", "T", "h", "r", "e", "a", "d", "w", "o", "r", "m">>,
   scientificName |-> <<"E", "n", "t", "e", "r", "o", "b", "i", "u", "s", " ", "v", "e", "r", "m", "i", "c", "u", "l", "a", "r", "i", "s">>,
   holistic |-> [of |-> "enterobius-001"]],
  [id |-> "strongyloides-001",
   commonName |-> <<"T", "h", "r", "e", "a", "d", "w", "o", "r", "m", " ", "/", " ", "S", "t", "r", "o", "n", "g", "y", "l", "o", "i", "d", "e", "s">>,
   scientificName |-> <<"S", "t", "r", "o", "n", "g", "y", "l", "o", "i", "d", "e", "s", " ", "s", "t", "e", "r", "c", "o", "r", "a", "l", "i", "s">>,
   holistic |-> [of |-> "strongyloides-001"]] >>

\* the predicate of PARASITE_DATABASE.find
matches(p, d) ==
  \/ Some(p.id) = Field(d, "parasiteId")
  \/ includes(toLowerCase(p.scientificName), lowerOrEmpty(Field(d, "scientificName")))
  \/ includes(toLowerCase(p.commonName), lowerOrEmpty(Field(d, "commonName")))

\* Array.prototype.find: the first element satisfying the predicate
encyclopediaEntry(d) ==
  LET hits == {i \in 1..Len(PARASITE_DATABASE) : matches(PARASITE_DATABASE[i], d)}
  IN  IF hits = {} THEN Undefined
      ELSE Some(PARASITE_DATABASE[CHOOSE i \in hits : \A j \in hits : i <= j])

\* one element of enrichDetections' map
enrichDetection(d, quality) ==
  LET rawConfidence == JsOr(d.confidenceScore, DefaultRawConfidence)
      calibratedConfidence == calibrateConfidence(rawConfidence, quality)
      reliable == isDetectionReliable(calibratedConfidence, quality)
      entry == encyclopediaEntry(d)
  IN  Spread(d, [reported |-> d.confidenceScore,
                 parasiteId |-> IF entry # Undefined THEN Some(entry[1].id)
                                ELSE Field(d, "parasiteId"),
                 holisticTreatment |-> IF entry # Undefined THEN Some(entry[1].holistic)
                                       ELSE Undefined,
                 confidenceScore |-> calibratedConfidence,
                 confidenceRaw |-> rawConfidence,
                 isReliableDetection |-> reliable,
                 confidenceLabel |-> confidenceLabel(calibratedConfidence)])

QualityLabels == {"excellent", "good", "fair", "poor"}
\* labels the report can carry: the four of the tables, one the tables do not
\* know, and no label at all
ImageQualities == {Some(l) : l \in QualityLabels \cup {"unknown"}} \cup {Undefined}
RawConfidences == {Some(c) : c \in 0..MaxRaw} \cup {Undefined}

Requests == 1..MaxRequests
ShareRequests == 1..MaxShareRequests

\* no payment confirmation in progress
PayIdle ==
  /\ intent = [status |-> "succeeded", ownerMatches |-> TRUE, credits |-> 1]
  /\ paymentRows = 0
  /\ confirmPc = [r \in Requests |-> "done"]
  /\ confirmResponse = [r \in Requests |-> 0]

\* no share request in progress
ShareIdle ==
  /\ ownsAnalysis = TRUE
  /\ sharedResults = [r \in ShareRequests |-> "none"]
  /\ sharePc = [r \in ShareRequests |-> "done"]
  /\ shareResponse = [r \in ShareRequests |-> Undefined]

SideIdle == PayIdle /\ ShareIdle

\* assessImageQuality not running
QualityIdle ==
  /\ buffer = [decodes |-> FALSE, width |-> Undefined, height |-> Undefined,
               variance |-> Undefined, mean |-> Undefined]
  /\ qpc = "idle"
  /\ qualityReport = Undefined

\* analyzeImage not running
PipeIdle ==
  /\ impl = "service"
  /\ hasFallbackKey = TRUE
  /\ providerDetections = << >>
  /\ apc = "idle"
  /\ callLog = << >>
  /\ primaryFailed = FALSE
  /\ aiResult = Undefined
  /\ result = Undefined
  /\ recalibrated = << >>

\* the upload side at rest
UploadIdle ==
  /\ credits = 0
  /\ analyses = [r \in Requests |-> "none"]
  /\ detections = [r \in Requests |-> 0]
  /\ userLock = 0
  /\ handler = "sync"
  /\ userExists = TRUE
  /\ pc = [r \in Requests |-> "done"]
  /\ readCredits = [r \in Requests |-> 0]
  /\ aiDetections = [r \in Requests |-> 0]
  /\ inserted = [r \in Requests |-> 0]
  /\ response = [r \in Requests |-> 0]
  /\ initCredits = 0
  /\ debited = [r \in Requests |-> 0]
  /\ refunded = [r \in Requests |-> 0]
  /\ aiFailed = [r \in Requests |-> FALSE]
  /\ lockTaken = [r \in Requests |-> FALSE]

InitCalib ==
  /\ imageQuality \in ImageQualities
  /\ detection \in [confidenceScore : RawConfidences]
  /\ enriched = Undefined
  /\ PipeIdle
  /\ QualityIdle
  /\ SideIdle
  /\ UploadIdle

EnrichDetections ==
  /\ enriched = Undefined
  /\ enriched' = Some(enrichDetection(detection, imageQuality))
  /\ UNCHANGED <<imageQuality, detection, pipeVars, qualVars, sideVars, dbVars, reqVars, histVars>>

NextCalib == EnrichDetections

SpecCalib == InitCalib /\ [][NextCalib]_vars

\* ---------------------------------------------------- reference matching
\* what a provider can put in the three fields the matching reads: nothing, an
\* entry's value (in another case, or a part of it), a value of no entry
ParasiteIds == {Undefined} \cup {Some(i) : i \in {"giardia-001", "blastocystis-001", "strongyloides-001", "toxocara-001"}}
ScientificNames == {Undefined, Some(<< >>),
  Some(<<"G", "I", "A", "R", "D", "I", "A", " ", "L", "A", "M", "B", "L", "I", "A">>),
  Some(<<"B", "l", "a", "s", "t", "o", "c", "y", "s", "t", "i", "s", " ", "h", "o", "m", "i", "n", "i", "s">>),
  Some(<<"S", "t", "r", "o", "n", "g", "y", "l", "o", "i", "d", "e", "s", " ", "s", "t", "e", "r", "c", "o", "r", "a", "l", "i", "s">>),
  Some(<<"T", "o", "x", "o", "c", "a", "r", "a", " ", "c", "a", "n", "i", "s">>)}
CommonNames == {Undefined, Some(<< >>),
  Some(<<"g", "i", "a", "r", "d", "i", "a">>),
  Some(<<"T", "h", "r", "e", "a", "d", "w", "o", "r", "m">>),
  Some(<<"S", "t", "r", "o", "n", "g", "y", "l", "o", "i", "d", "e", "s">>),
  Some(<<"D", "o", "g", " ", "R", "o", "u", "n", "d", "w", "o", "r", "m">>)}

InitMatch ==
  /\ imageQuality \in {Some("good"), Undefined}
  /\ detection \in [confidenceScore : {Some(80)}, parasiteId : ParasiteIds,
                    scientificName : ScientificNames, commonName : CommonNames]
  /\ enriched = Undefined
  /\ PipeIdle
  /\ QualityIdle
  /\ SideIdle
  /\ UploadIdle

SpecMatch == InitMatch /\ [][NextCalib]_vars

\* --------------------------------------------------- assessImageQuality
\* scores are in hundredths and overallQuality in ten-thousandths; every
\* product and sum the code forms on these values is exact in that unit, and
\* the double-precision results order against 0.8, 0.6 and 0.4 as the exact
\* ones do.

\* boundaries of the resolution steps and their neighbours; << >> is a
\* dimension the metadata does not carry
Dimensions == {Undefined} \cup {Some(n) : n \in {199, 200, 399, 400, 599, 600, 999, 1000}}
\* variance of the greyscale thumbnail; << >> when the pipeline throws
Variances == {Undefined} \cup {Some(n) : n \in {0, 199, 200, 499, 500, 999, 1000, 1999, 2000}}
\* mean brightness of the greyscale image; << >> when stats() throws
Means == {Undefined} \cup
  {Some(n) : n \in {0, 29, 30, 49, 50, 79, 80, 180, 181, 210, 211, 230, 231, 255}}

Buffers ==
  { [decodes |-> FALSE, width |-> Undefined, height |-> Undefined,
     variance |-> Undefined, mean |-> Undefined] } \cup
  [decodes : {TRUE}, width : Dimensions, height : Dimensions,
   variance : Variances, mean : Means]

resolutionScore(minDimension) ==
  IF minDimension >= 1000 THEN 100
  ELSE IF minDimension >= 600 THEN 80
  ELSE IF minDimension >= 400 THEN 60
  ELSE IF minDimension >= 200 THEN 40
  ELSE 20

\* the try block of the sharpness estimate and its catch
sharpnessScore(variance) ==
  IF variance = Undefined THEN 60
  ELSE IF variance[1] >= 2000 THEN 100
  ELSE IF variance[1] >= 1000 THEN 85
  ELSE IF variance[1] >= 500 THEN 70
  ELSE IF variance[1] >= 200 THEN 55
  ELSE 35

\* the try block of the lighting estimate and its catch
lightingScore(mean) ==
  IF mean = Undefined THEN 60
  ELSE IF mean[1] >= 80 /\ mean[1] <= 180 THEN 100
  ELSE IF mean[1] >= 50 /\ mean[1] <= 210 THEN 80
  ELSE IF mean[1] >= 30 /\ mean[1] <= 230 THEN 60
  ELSE 40

qualityLabel(overallQuality) ==
  IF overallQuality >= 8000 THEN "excellent"
  ELSE IF overallQuality >= 6000 THEN "good"
  ELSE IF overallQuality >= 4000 THEN "fair"
  ELSE "poor"

\* the report with resolution weighted 0.5 instead of 0.4
assessImageQualityHeavyResolution(b) ==
  LET width == JsOr(b.width, 0)
      height == JsOr(b.height, 0)
      r == resolutionScore(Min(width, height))
      s == sharpnessScore(b.variance)
      l == lightingScore(b.mean)
      overallQuality == (r * 50) + (s * 35) + (l * 25)
  IN  [width |-> width, height |-> height,
       resolutionScore |-> r, sharpnessScore |-> s, lightingScore |-> l,
       overallQuality |-> overallQuality,
       qualityLabel |-> qualityLabel(overallQuality)]

\* the value assessImageQuality resolves to for a buffer sharp can decode
assessImageQuality(b) ==
  LET width == JsOr(b.width, 0)
      height == JsOr(b.height, 0)
      r == resolutionScore(Min(width, height))
      s == sharpnessScore(b.variance)
      l == lightingScore(b.mean)
      overallQuality == (r * 40) + (s * 35) + (l * 25)
  IN  [width |-> width, height |-> height,
       resolutionScore |-> r, sharpnessScore |-> s, lightingScore |-> l,
       overallQuality |-> overallQuality,
       qualityLabel |-> qualityLabel(overallQuality)]

InitQuality ==
  /\ buffer \in Buffers
  /\ qpc = "start"
  /\ qualityReport = Undefined
  /\ SideIdle
  /\ imageQuality = Undefined
  /\ detection = [confidenceScore |-> Undefined]
  /\ enriched = Undefined
  /\ PipeIdle
  /\ UploadIdle

\* sharp(buffer).metadata() is outside the try blocks: when it throws the
\* call rejects and there is no report
AssessImageQuality ==
  /\ qpc = "start"
  /\ IF buffer.decodes
     THEN qpc' = "returned" /\ qualityReport' = Some(assessImageQuality(buffer))
     ELSE qpc' = "thrown" /\ UNCHANGED qualityReport
  /\ UNCHANGED <<buffer, imageQuality, detection, enriched, pipeVars, sideVars, dbVars, reqVars,
                 histVars>>

NextQuality == AssessImageQuality

SpecQuality == InitQuality /\ [][NextQuality]_vars

\* ------------------------------------------------------------ analyzeImage
\* "service" is services/aiAnalysis.js (preprocess, Claude, GPT-4o, enrich);
\* "backend" is backend/src/services/aiAnalysis.ts (fetch, Claude, GPT-4o when
\* OPENAI_API_KEY is set, parseAnalysisResponse).

\* what a provider call can come back with: a rejected call, a text that is
\* not JSON, a JSON object without a detections array, a well-formed reply
Replies == {"error", "nonjson", "noarray", "ok"}

\* JSON.parse succeeds on the reply text
Parses(reply) == reply \in {"noarray", "ok"}

\* the object JSON.parse returns
Payload(reply) ==
  IF reply = "ok" THEN [detections |-> Some(providerDetections)]
                  ELSE [detections |-> Undefined]

\* confidences a provider detection carries in the pipeline runs
PipelineConfidences == {Some(40), Some(80)}
UrgencyLevels == {Some("low"), Some("moderate"), Some("high"), Some("emergency")}
ProviderDetection == [confidenceScore : PipelineConfidences, urgencyLevel : UrgencyLevels]

\* a provider's detections array; ref stands for the rest of the element
\* (names, bounding box), which tells two elements apart
Tagged(list) ==
  [i \in 1..Len(list) |->
     [ref |-> i, confidenceScore |-> list[i].confidenceScore,
      urgencyLevel |-> list[i].urgencyLevel]]
DetectionLists == {Tagged(l) : l \in UNION {[1..n -> ProviderDetection] : n \in 0..MaxList}}

InitPipe ==
  /\ impl \in {"service", "backend"}
  /\ hasFallbackKey \in (IF impl = "service" THEN {TRUE} ELSE BOOLEAN)
  /\ imageQuality \in (IF impl = "service" THEN {Some(l) : l \in QualityLabels}
                                          ELSE {Undefined})
  /\ providerDetections \in DetectionLists
  /\ apc = "start"
  /\ callLog = << >>
  /\ primaryFailed = FALSE
  /\ aiResult = Undefined
  /\ result = Undefined
  /\ recalibrated = << >>
  /\ detection = [confidenceScore |-> Undefined]
  /\ enriched = Undefined
  /\ QualityIdle
  /\ SideIdle
  /\ UploadIdle

\* aiResult.detections || []
detectionsOrEmpty(payload) ==
  IF payload.detections = Undefined THEN << >> ELSE payload.detections[1]

enrichDetections(aiDets, quality) ==
  [i \in 1..Len(aiDets) |-> enrichDetection(aiDets[i], quality)]

IsReliable(d) == d.isReliableDetection
IsUnreliable(d) == ~d.isReliableDetection
\* a low-confidence test by label instead of by the reliability flag
IsLabelledInsufficient(d) == d.confidenceLabel = "insufficient"

urgencyRanking == [emergency |-> 4, high |-> 3, moderate |-> 2, low |-> 1]

\* reliableDetections.reduce(..., 'low')
RECURSIVE highestUrgency(_, _)
highestUrgency(list, highest) ==
  IF list = << >> THEN highest
  ELSE LET d == Head(list)
       IN  highestUrgency(Tail(list),
             IF JsOr(Lookup(urgencyRanking, d.urgencyLevel), 0)
                  > JsOr(Lookup(urgencyRanking, Some(highest)), 0)
             THEN d.urgencyLevel[1] ELSE highest)

\* steps 3 and 4 with the urgency taken over every enriched detection
buildResultUrgencyOverAll(payload, quality, provider) ==
  LET enrichedDetections == enrichDetections(detectionsOrEmpty(payload), quality)
      reliableDetections == SelectSeq(enrichedDetections, IsReliable)
  IN  [aiProvider |-> provider,
       detections |-> reliableDetections,
       overallUrgency |-> highestUrgency(enrichedDetections, "low"),
       lowConfidenceDetections |-> SelectSeq(enrichedDetections, IsUnreliable)]

\* steps 3 and 4 with the low-confidence list chosen by confidence label
buildResultLowByLabel(payload, quality, provider) ==
  LET enrichedDetections == enrichDetections(detectionsOrEmpty(payload), quality)
      reliableDetections == SelectSeq(enrichedDetections, IsReliable)
  IN  [aiProvider |-> provider,
       detections |-> reliableDetections,
       overallUrgency |-> highestUrgency(reliableDetections, "low"),
       lowConfidenceDetections |-> SelectSeq(enrichedDetections, IsLabelledInsufficient)]

\* steps 3 and 4 of analyzeImage and the object it returns
buildResult(payload, quality, provider) ==
  LET enrichedDetections == enrichDetections(detectionsOrEmpty(payload), quality)
      reliableDetections == SelectSeq(enrichedDetections, IsReliable)
  IN  [aiProvider |-> provider,
       detections |-> reliableDetections,
       overallUrgency |-> highestUrgency(reliableDetections, "low"),
       lowConfidenceDetections |-> SelectSeq(enrichedDetections, IsUnreliable)]

\* parseAnalysisResponse: Array.isArray(parsed.detections) ? ... : []
parseAnalysisResponse(payload, provider) ==
  [aiProvider |-> provider, detections |-> detectionsOrEmpty(payload)]

Call(provider, form, metadata) ==
  [provider |-> provider, image |-> "image", form |-> form, metadata |-> metadata]

\* ---- services/aiAnalysis.js
ServicePreprocess ==
  /\ impl = "service" /\ apc = "start"
  /\ \E ok \in BOOLEAN : apc' = IF ok THEN "primary" ELSE "thrown"
  /\ UNCHANGED <<qualVars, sideVars, recalibrated, imageQuality, detection, enriched, impl, hasFallbackKey,
                 providerDetections, callLog, primaryFailed, aiResult, result,
                 dbVars, reqVars, histVars>>

\* the primary call whose failure is thrown to the caller at once
ServiceClaudeNoFallback ==
  /\ impl = "service" /\ apc = "primary"
  /\ callLog' = Append(callLog, Call("claude", "base64", Some("metadata")))
  /\ \E reply \in Replies :
       IF Parses(reply)
       THEN /\ aiResult' = Some(Payload(reply))
            /\ apc' = "enrich"
            /\ UNCHANGED primaryFailed
       ELSE /\ primaryFailed' = TRUE
            /\ apc' = "thrown"
            /\ UNCHANGED aiResult
  /\ UNCHANGED <<qualVars, sideVars, recalibrated, imageQuality, detection, enriched, impl, hasFallbackKey,
                 providerDetections, result, dbVars, reqVars, histVars>>

ServiceClaude ==
  /\ impl = "service" /\ apc = "primary"
  /\ callLog' = Append(callLog, Call("claude", "base64", Some("metadata")))
  /\ \E reply \in Replies :
       IF Parses(reply)
       THEN /\ aiResult' = Some(Payload(reply))
            /\ apc' = "enrich"
            /\ UNCHANGED primaryFailed
       ELSE /\ primaryFailed' = TRUE
            /\ apc' = "fallback"
            /\ UNCHANGED aiResult
  /\ UNCHANGED <<qualVars, sideVars, recalibrated, imageQuality, detection, enriched, impl, hasFallbackKey,
                 providerDetections, result, dbVars, reqVars, histVars>>

ServiceGPT ==
  /\ impl = "service" /\ apc = "fallback"
  /\ callLog' = Append(callLog, Call("gpt-4o", "base64", Some("metadata")))
  /\ \E reply \in Replies :
       IF Parses(reply)
       THEN /\ aiResult' = Some(Payload(reply))
            /\ apc' = "enrich"
       ELSE /\ apc' = "thrown"
            /\ UNCHANGED aiResult
  /\ UNCHANGED <<qualVars, sideVars, recalibrated, imageQuality, detection, enriched, impl, hasFallbackKey,
                 providerDetections, primaryFailed, result, dbVars, reqVars, histVars>>

ServiceEnrich ==
  /\ impl = "service" /\ apc = "enrich"
  /\ result' = Some(buildResult(aiResult[1], imageQuality,
                                callLog[Len(callLog)].provider))
  /\ apc' = "returned"
  /\ UNCHANGED <<qualVars, sideVars, recalibrated, imageQuality, detection, enriched, impl, hasFallbackKey,
                 providerDetections, callLog, primaryFailed, aiResult,
                 dbVars, reqVars, histVars>>

\* ---- backend/src/services/aiAnalysis.ts
\* where the catch of analyzeImage goes: the fallback is tried only when
\* process.env.OPENAI_API_KEY is set
CatchTarget == IF hasFallbackKey THEN "fallback" ELSE "thrown"

\* fetch(imageUrl)
BackendFetch ==
  /\ impl = "backend" /\ apc = "start"
  /\ \E ok \in BOOLEAN :
       IF ok THEN apc' = "primary" /\ UNCHANGED primaryFailed
             ELSE apc' = CatchTarget /\ primaryFailed' = TRUE
  /\ UNCHANGED <<qualVars, sideVars, recalibrated, imageQuality, detection, enriched, impl, hasFallbackKey,
                 providerDetections, callLog, aiResult, result,
                 dbVars, reqVars, histVars>>

BackendClaude ==
  /\ impl = "backend" /\ apc = "primary"
  /\ callLog' = Append(callLog, Call("claude", "base64", Undefined))
  /\ \E reply \in Replies :
       IF Parses(reply)
       THEN /\ aiResult' = Some(Payload(reply))
            /\ result' = Some(parseAnalysisResponse(Payload(reply), "claude"))
            /\ apc' = "returned"
            /\ UNCHANGED primaryFailed
       ELSE /\ primaryFailed' = TRUE
            /\ apc' = CatchTarget
            /\ UNCHANGED <<aiResult, result>>
  /\ UNCHANGED <<qualVars, sideVars, recalibrated, imageQuality, detection, enriched, impl, hasFallbackKey,
                 providerDetections, dbVars, reqVars, histVars>>

\* analyzeWithGPT4o(imageUrl)
BackendGPT ==
  /\ impl = "backend" /\ apc = "fallback"
  /\ callLog' = Append(callLog, Call("gpt-4o", "url", Undefined))
  /\ \E reply \in Replies :
       IF Parses(reply)
       THEN /\ aiResult' = Some(Payload(reply))
            /\ result' = Some(parseAnalysisResponse(Payload(reply), "gpt-4o"))
            /\ apc' = "returned"
       ELSE /\ apc' = "thrown"
            /\ UNCHANGED <<aiResult, result>>
  /\ UNCHANGED <<qualVars, sideVars, recalibrated, imageQuality, detection, enriched, impl, hasFallbackKey,
                 providerDetections, primaryFailed, dbVars, reqVars, histVars>>

NextPipe ==
  \/ ServicePreprocess
  \/ ServiceClaude
  \/ ServiceGPT
  \/ ServiceEnrich
  \/ BackendFetch
  \/ BackendClaude
  \/ BackendGPT

SpecPipe == InitPipe /\ [][NextPipe]_vars

\* ------------------------------------------------------ recalibrateResult
\* a detection of an existing result read back as enrichDetections' input:
\* its confidenceScore is a number that is present
AsInput(d) == [d EXCEPT !.confidenceScore = Some(@)]

recalibrateResult(existingResult, newImageQuality) ==
  Spread(existingResult,
         [detections |->
            enrichDetections([i \in 1..Len(existingResult.detections) |->
                                AsInput(existingResult.detections[i])],
                             newImageQuality)])

\* the report the result was produced with, and a different one
NewImageQualities == {imageQuality, Some("poor")}

\* recalibrateResult applied to the result of analyzeImage, or to the value of
\* the previous application
RecalibrateResult ==
  /\ impl = "service" /\ apc = "returned"
  /\ Len(recalibrated) < MaxRecalibrations
  /\ \E newImageQuality \in NewImageQualities :
       LET existingResult == IF recalibrated = << >> THEN result[1]
                             ELSE recalibrated[Len(recalibrated)].result
       IN  recalibrated' = Append(recalibrated,
                                  [quality |-> newImageQuality,
                                   result |-> recalibrateResult(existingResult,
                                                                newImageQuality)])
  /\ UNCHANGED <<qualVars, sideVars, imageQuality, detection, enriched, impl, hasFallbackKey,
                 providerDetections, apc, callLog, primaryFailed, aiResult, result,
                 dbVars, reqVars, histVars>>

NextRecal == NextPipe \/ RecalibrateResult

SpecRecal == InitPipe /\ [][NextRecal]_vars

\* ------------------------------------------------------------ POST /upload
\* Fault model.  The external calls (Cloudinary, the AI providers) can fail.
\* A statement that carries request or provider data (the INSERTs, and the
\* completing UPDATE of the awaited handler, which writes ai_result) can be
\* rejected by the database.  An UPDATE that only changes the credit counter
\* or the status of a row found by primary key succeeds.

CalibIdle ==
  /\ imageQuality = Undefined
  /\ detection = [confidenceScore |-> Undefined]
  /\ enriched = Undefined
  /\ PipeIdle
  /\ QualityIdle
  /\ SideIdle

Init ==
  /\ CalibIdle
  /\ userExists \in BOOLEAN
  /\ credits \in (IF userExists THEN 0..MaxCredits ELSE {0})
  /\ initCredits = credits
  /\ handler \in {"sync", "detached"}
  /\ analyses = [r \in Requests |-> "none"]
  /\ detections = [r \in Requests |-> 0]
  /\ userLock = 0
  /\ pc = [r \in Requests |-> "start"]
  /\ readCredits = [r \in Requests |-> 0]
  /\ aiDetections = [r \in Requests |-> 0]
  /\ inserted = [r \in Requests |-> 0]
  /\ response = [r \in Requests |-> 0]
  /\ debited = [r \in Requests |-> 0]
  /\ refunded = [r \in Requests |-> 0]
  /\ aiFailed = [r \in Requests |-> FALSE]
  /\ lockTaken = [r \in Requests |-> FALSE]

\* res.status(code).json(...); return
Respond(r, code) ==
  /\ response' = [response EXCEPT ![r] = code]
  /\ pc' = [pc EXCEPT ![r] = "done"]

Goto(r, label) == pc' = [pc EXCEPT ![r] = label]

\* multer's fileFilter or size limit refuses the upload: the error goes to
\* Express's error handler and the route handler is never entered
Refuse(r) ==
  /\ response' = [response EXCEPT ![r] = 500]
  /\ pc' = [pc EXCEPT ![r] = "refused"]

\* what upload.single('image') leaves in req.file
Uploads == {"file", "nofile", "refused"}

\* ---- routes/analysisRoutes.js: every step is awaited by the handler, and
\* every statement runs on its own (the client never issues BEGIN)

SyncReceive(r) ==
  /\ handler = "sync" /\ pc[r] = "start"
  /\ \E upload \in Uploads :
       IF upload = "refused" THEN Refuse(r)
       ELSE IF upload = "file" THEN Goto(r, "select") /\ UNCHANGED response
       ELSE Respond(r, 400)
  /\ UNCHANGED <<calibVars, dbVars, handler, userExists, readCredits, aiDetections, inserted, histVars>>

\* SELECT image_credits ... FOR UPDATE, outside a transaction: the row lock is
\* taken and released by the statement itself
\* the credit taken by the same statement that reads the balance, before
\* the balance is checked
SyncSelectCreditsDebitFirst(r) ==
  /\ handler = "sync" /\ pc[r] = "select"
  /\ userLock = 0
  /\ readCredits' = [readCredits EXCEPT ![r] = credits]
  /\ credits' = credits - 1
  /\ debited' = [debited EXCEPT ![r] = @ + 1]
  /\ IF ~userExists THEN Respond(r, 404)
     ELSE IF credits < 1 THEN Respond(r, 402)
     ELSE Goto(r, "cloud") /\ UNCHANGED response
  /\ lockTaken' = [lockTaken EXCEPT ![r] = userExists]
  /\ UNCHANGED <<calibVars, analyses, detections, userLock, handler, userExists,
                 aiDetections, inserted, initCredits, refunded, aiFailed>>

SyncSelectCredits(r) ==
  /\ handler = "sync" /\ pc[r] = "select"
  /\ userLock = 0
  /\ readCredits' = [readCredits EXCEPT ![r] = credits]
  /\ IF ~userExists THEN Respond(r, 404)
     ELSE IF credits < 1 THEN Respond(r, 402)
     ELSE Goto(r, "debit") /\ UNCHANGED response
  /\ lockTaken' = [lockTaken EXCEPT ![r] = userExists]
  /\ UNCHANGED <<calibVars, dbVars, handler, userExists, aiDetections, inserted,
                 initCredits, debited, refunded, aiFailed>>

SyncDebit(r) ==
  /\ handler = "sync" /\ pc[r] = "debit"
  /\ userLock = 0
  /\ credits' = credits - 1
  /\ debited' = [debited EXCEPT ![r] = @ + 1]
  /\ Goto(r, "cloud")
  /\ UNCHANGED <<calibVars, analyses, detections, userLock, handler, userExists, readCredits,
                 aiDetections, inserted, response, initCredits, lockTaken, refunded, aiFailed>>

\* Promise.all([uploadToCloudinary, uploadThumbnail]); a rejection lands in the
\* handler's outer catch
SyncCloudinary(r) ==
  /\ handler = "sync" /\ pc[r] = "cloud"
  /\ \E ok \in BOOLEAN :
       IF ok THEN Goto(r, "insert") /\ UNCHANGED response
             ELSE Respond(r, 500)
  /\ UNCHANGED <<calibVars, dbVars, handler, userExists, readCredits, aiDetections, inserted, histVars>>

SyncInsertAnalysis(r) ==
  /\ handler = "sync" /\ pc[r] = "insert"
  /\ \E ok \in BOOLEAN :
       IF ok THEN /\ analyses' = [analyses EXCEPT ![r] = "processing"]
                  /\ Goto(r, "analyze") /\ UNCHANGED response
             ELSE /\ Respond(r, 500) /\ UNCHANGED analyses
  /\ UNCHANGED <<calibVars, credits, detections, userLock, handler, userExists, readCredits,
                 aiDetections, inserted, histVars>>

\* await analyzeImage(...): a result with n reliable detections, or a throw
\* when both providers failed
SyncAnalyze(r) ==
  /\ handler = "sync" /\ pc[r] = "analyze"
  /\ \/ \E n \in 0..MaxDetections :
          /\ aiDetections' = [aiDetections EXCEPT ![r] = n]
          /\ Goto(r, "store")
          /\ UNCHANGED aiFailed
     \/ /\ aiFailed' = [aiFailed EXCEPT ![r] = TRUE]
        /\ Goto(r, "refund")
        /\ UNCHANGED aiDetections
  /\ UNCHANGED <<calibVars, dbVars, handler, userExists, readCredits, inserted, response,
                 initCredits, lockTaken, debited, refunded>>

\* the catch block entered without giving the credit back
SyncRefundForgotten(r) ==
  /\ handler = "sync" /\ pc[r] = "refund"
  /\ Goto(r, "markfailed")
  /\ UNCHANGED <<calibVars, dbVars, handler, userExists, readCredits, aiDetections, inserted,
                 response, histVars>>

SyncRefund(r) ==
  /\ handler = "sync" /\ pc[r] = "refund"
  /\ userLock = 0
  /\ credits' = credits + 1
  /\ refunded' = [refunded EXCEPT ![r] = @ + 1]
  /\ Goto(r, "markfailed")
  /\ UNCHANGED <<calibVars, analyses, detections, userLock, handler, userExists, readCredits,
                 aiDetections, inserted, response, initCredits, lockTaken, debited, aiFailed>>

SyncMarkFailed(r) ==
  /\ handler = "sync" /\ pc[r] = "markfailed"
  /\ analyses' = [analyses EXCEPT ![r] = "failed"]
  /\ Respond(r, 500)
  /\ UNCHANGED <<calibVars, credits, detections, userLock, handler, userExists, readCredits,
                 aiDetections, inserted, histVars>>

\* one turn of the for loop over aiResult.detections
SyncInsertDetection(r) ==
  /\ handler = "sync" /\ pc[r] = "store"
  /\ inserted[r] < aiDetections[r]
  /\ \E ok \in BOOLEAN :
       IF ok THEN /\ detections' = [detections EXCEPT ![r] = @ + 1]
                  /\ inserted' = [inserted EXCEPT ![r] = @ + 1]
                  /\ UNCHANGED <<pc, response>>
             ELSE /\ Respond(r, 500) /\ UNCHANGED <<detections, inserted>>
  /\ UNCHANGED <<calibVars, credits, analyses, userLock, handler, userExists, readCredits,
                 aiDetections, histVars>>

\* UPDATE analyses SET status = 'completed', ai_result = ...
SyncComplete(r) ==
  /\ handler = "sync" /\ pc[r] = "store"
  /\ inserted[r] = aiDetections[r]
  /\ \E ok \in BOOLEAN :
       IF ok THEN /\ analyses' = [analyses EXCEPT ![r] = "completed"]
                  /\ Goto(r, "balance") /\ UNCHANGED response
             ELSE /\ Respond(r, 500) /\ UNCHANGED analyses
  /\ UNCHANGED <<calibVars, credits, detections, userLock, handler, userExists, readCredits,
                 aiDetections, inserted, histVars>>

\* SELECT image_credits, then 201
SyncRespond(r) ==
  /\ handler = "sync" /\ pc[r] = "balance"
  /\ readCredits' = [readCredits EXCEPT ![r] = credits]
  /\ Respond(r, 201)
  /\ UNCHANGED <<calibVars, dbVars, handler, userExists, aiDetections, inserted, histVars>>

\* ---- backend/src/routes/analysis.ts: the analysis runs detached from the
\* request; multi-statement writes go through withTransaction

DetReceive(r) ==
  /\ handler = "detached" /\ pc[r] = "start"
  /\ \E upload \in Uploads, valid \in BOOLEAN :
       IF upload = "refused" THEN Refuse(r)
       ELSE IF valid /\ upload = "file" THEN Goto(r, "select") /\ UNCHANGED response
       ELSE Respond(r, 400)
  /\ UNCHANGED <<calibVars, dbVars, handler, userExists, readCredits, aiDetections, inserted, histVars>>

\* pool.query('SELECT image_credits ...'): a plain read of the committed row
DetSelectCredits(r) ==
  /\ handler = "detached" /\ pc[r] = "select"
  /\ readCredits' = [readCredits EXCEPT ![r] = credits]
  /\ IF ~userExists THEN Respond(r, 404)
     ELSE IF credits < 1 THEN Respond(r, 402)
     ELSE Goto(r, "cloud") /\ UNCHANGED response
  /\ UNCHANGED <<calibVars, dbVars, handler, userExists, aiDetections, inserted, histVars>>

DetCloudinary(r) ==
  /\ handler = "detached" /\ pc[r] = "cloud"
  /\ \E ok \in BOOLEAN :
       IF ok THEN Goto(r, "txdebit") /\ UNCHANGED response
             ELSE Respond(r, 500)
  /\ UNCHANGED <<calibVars, dbVars, handler, userExists, readCredits, aiDetections, inserted, histVars>>

\* BEGIN; UPDATE users SET image_credits = image_credits - 1: takes the row
\* lock on the user's row and holds it to the end of the transaction
DetTxDebit(r) ==
  /\ handler = "detached" /\ pc[r] = "txdebit"
  /\ userLock = 0
  /\ userLock' = r
  /\ lockTaken' = [lockTaken EXCEPT ![r] = TRUE]
  /\ Goto(r, "txinsert")
  /\ UNCHANGED <<calibVars, credits, analyses, detections, handler, userExists, readCredits,
                 aiDetections, inserted, response, initCredits, debited, refunded, aiFailed>>

\* INSERT INTO analyses ... 'processing'; COMMIT - or ROLLBACK and rethrow
\* into the handler's catch
DetTxInsertCommit(r) ==
  /\ handler = "detached" /\ pc[r] = "txinsert"
  /\ userLock = r
  /\ userLock' = 0
  /\ \E ok \in BOOLEAN :
       IF ok THEN /\ credits' = credits - 1
                  /\ debited' = [debited EXCEPT ![r] = @ + 1]
                  /\ analyses' = [analyses EXCEPT ![r] = "processing"]
                  /\ Goto(r, "launch") /\ UNCHANGED response
             ELSE /\ Respond(r, 500)
                  /\ UNCHANGED <<credits, debited, analyses>>
  /\ UNCHANGED <<calibVars, detections, handler, userExists, readCredits, aiDetections, inserted,
                 initCredits, lockTaken, refunded, aiFailed>>

\* analyzeImage(url).then(...).catch(...) is started and not awaited; 202
DetLaunch(r) ==
  /\ handler = "detached" /\ pc[r] = "launch"
  /\ response' = [response EXCEPT ![r] = 202]
  /\ Goto(r, "task")
  /\ UNCHANGED <<calibVars, dbVars, handler, userExists, readCredits, aiDetections, inserted, histVars>>

\* the promise of analyzeImage settles
TaskAnalyze(r) ==
  /\ handler = "detached" /\ pc[r] = "task"
  /\ \/ \E n \in 0..MaxDetections :
          /\ aiDetections' = [aiDetections EXCEPT ![r] = n]
          /\ Goto(r, "taskstore")
          /\ UNCHANGED aiFailed
     \/ /\ aiFailed' = [aiFailed EXCEPT ![r] = TRUE]
        /\ Goto(r, "taskcatch")
        /\ UNCHANGED aiDetections
  /\ UNCHANGED <<calibVars, dbVars, handler, userExists, readCredits, inserted, response,
                 initCredits, lockTaken, debited, refunded>>

\* .then: one INSERT INTO detections inside the transaction; a rejected
\* INSERT rolls the transaction back and rejects into .catch
TaskInsertDetection(r) ==
  /\ handler = "detached" /\ pc[r] = "taskstore"
  /\ inserted[r] < aiDetections[r]
  /\ \E ok \in BOOLEAN :
       IF ok THEN /\ inserted' = [inserted EXCEPT ![r] = @ + 1]
                  /\ UNCHANGED pc
             ELSE /\ inserted' = [inserted EXCEPT ![r] = 0]
                  /\ Goto(r, "taskcatch")
  /\ UNCHANGED <<calibVars, dbVars, handler, userExists, readCredits, aiDetections, response, histVars>>

\* the completing transaction followed by a rejection into .catch
TaskCompleteThenReject(r) ==
  /\ handler = "detached" /\ pc[r] = "taskstore"
  /\ inserted[r] = aiDetections[r]
  /\ detections' = [detections EXCEPT ![r] = inserted[r]]
  /\ analyses' = [analyses EXCEPT ![r] = "completed"]
  /\ Goto(r, "taskcatch")
  /\ UNCHANGED <<calibVars, credits, userLock, handler, userExists, readCredits,
                 aiDetections, inserted, response, histVars>>

\* UPDATE analyses SET status = 'completed'; COMMIT
TaskComplete(r) ==
  /\ handler = "detached" /\ pc[r] = "taskstore"
  /\ inserted[r] = aiDetections[r]
  /\ detections' = [detections EXCEPT ![r] = inserted[r]]
  /\ analyses' = [analyses EXCEPT ![r] = "completed"]
  /\ Goto(r, "done")
  /\ UNCHANGED <<calibVars, credits, userLock, handler, userExists, readCredits, aiDetections,
                 inserted, response, histVars>>

\* .catch: UPDATE analyses SET status = 'failed'
TaskCatch(r) ==
  /\ handler = "detached" /\ pc[r] = "taskcatch"
  /\ analyses' = [analyses EXCEPT ![r] = "failed"]
  /\ Goto(r, "done")
  /\ UNCHANGED <<calibVars, credits, detections, userLock, handler, userExists, readCredits,
                 aiDetections, inserted, response, histVars>>

Next ==
  \/ \E r \in Requests : SyncReceive(r)
  \/ \E r \in Requests : SyncSelectCredits(r)
  \/ \E r \in Requests : SyncDebit(r)
  \/ \E r \in Requests : SyncCloudinary(r)
  \/ \E r \in Requests : SyncInsertAnalysis(r)
  \/ \E r \in Requests : SyncAnalyze(r)
  \/ \E r \in Requests : SyncRefund(r)
  \/ \E r \in Requests : SyncMarkFailed(r)
  \/ \E r \in Requests : SyncInsertDetection(r)
  \/ \E r \in Requests : SyncComplete(r)
  \/ \E r \in Requests : SyncRespond(r)
  \/ \E r \in Requests : DetReceive(r)
  \/ \E r \in Requests : DetSelectCredits(r)
  \/ \E r \in Requests : DetCloudinary(r)
  \/ \E r \in Requests : DetTxDebit(r)
  \/ \E r \in Requests : DetTxInsertCommit(r)
  \/ \E r \in Requests : DetLaunch(r)
  \/ \E r \in Requests : TaskAnalyze(r)
  \/ \E r \in Requests : TaskInsertDetection(r)
  \/ \E r \in Requests : TaskComplete(r)
  \/ \E r \in Requests : TaskCatch(r)

Spec == Init /\ [][Next]_vars

\* -------------------------------------------------- POST /payment/confirm
\* Every request names the same payment intent.  withTransaction runs BEGIN,
\* the callback, COMMIT, and on a rejected statement ROLLBACK and rethrow; the
\* UPDATE of the user's row holds its row lock to the end of the transaction.

PaymentIntents ==
  [status : {"succeeded", "requires_payment_method"}, ownerMatches : BOOLEAN,
   credits : 1..MaxIntentCredits]

InitPay ==
  /\ intent \in PaymentIntents
  /\ paymentRows = 0
  /\ confirmPc = [r \in Requests |-> "start"]
  /\ confirmResponse = [r \in Requests |-> 0]
  /\ ShareIdle
  /\ imageQuality = Undefined
  /\ detection = [confidenceScore |-> Undefined]
  /\ enriched = Undefined
  /\ PipeIdle
  /\ QualityIdle
  /\ UploadIdle

ConfirmRespond(r, code) ==
  /\ confirmResponse' = [confirmResponse EXCEPT ![r] = code]
  /\ confirmPc' = [confirmPc EXCEPT ![r] = "done"]

ConfirmGoto(r, label) ==
  /\ confirmPc' = [confirmPc EXCEPT ![r] = label]
  /\ UNCHANGED confirmResponse

\* validationResult(req)
ConfirmReceive(r) ==
  /\ confirmPc[r] = "start"
  /\ \E valid \in BOOLEAN :
       IF valid THEN ConfirmGoto(r, "retrieve") ELSE ConfirmRespond(r, 400)
  /\ UNCHANGED <<imageQuality, detection, enriched, pipeVars, qualVars, shareVars,
                 intent, paymentRows, dbVars, reqVars, histVars>>

\* stripe.paymentIntents.retrieve, then the status and owner checks
ConfirmRetrieve(r) ==
  /\ confirmPc[r] = "retrieve"
  /\ \E ok \in BOOLEAN :
       IF ~ok THEN ConfirmRespond(r, 500)
       ELSE IF intent.status # "succeeded" THEN ConfirmRespond(r, 400)
       ELSE IF ~intent.ownerMatches THEN ConfirmRespond(r, 403)
       ELSE ConfirmGoto(r, "select")
  /\ UNCHANGED <<imageQuality, detection, enriched, pipeVars, qualVars, shareVars,
                 intent, paymentRows, dbVars, reqVars, histVars>>

\* SELECT id FROM payments WHERE stripe_payment_intent_id = ...: a plain read
\* of the committed rows
ConfirmSelectExisting(r) ==
  /\ confirmPc[r] = "select"
  /\ IF paymentRows > 0 THEN ConfirmRespond(r, 400) ELSE ConfirmGoto(r, "txupdate")
  /\ UNCHANGED <<imageQuality, detection, enriched, pipeVars, qualVars, shareVars,
                 intent, paymentRows, dbVars, reqVars, histVars>>

\* BEGIN; UPDATE users SET image_credits = image_credits + credits: waits for
\* the row lock and keeps it
ConfirmTxUpdate(r) ==
  /\ confirmPc[r] = "txupdate"
  /\ userLock = 0
  /\ userLock' = r
  /\ ConfirmGoto(r, "txinsert")
  /\ UNCHANGED <<imageQuality, detection, enriched, pipeVars, qualVars, shareVars,
                 intent, paymentRows, credits, analyses, detections, reqVars, histVars>>

\* a payments table without the UNIQUE constraint
PaymentIntentIdFree == FALSE

\* stripe_payment_intent_id is UNIQUE: an INSERT with an id some committed row
\* carries is rejected
PaymentIntentIdTaken == paymentRows > 0

\* INSERT INTO payments, rejected when a row with the intent's id exists
\* (stripe_payment_intent_id is UNIQUE) or for another reason; SELECT; COMMIT
\* and 200 - or ROLLBACK and 500
ConfirmTxInsertCommit(r) ==
  /\ confirmPc[r] = "txinsert"
  /\ userLock = r
  /\ userLock' = 0
  /\ \E ok \in BOOLEAN :
       IF ok /\ ~PaymentIntentIdTaken
       THEN /\ credits' = credits + intent.credits
            /\ paymentRows' = paymentRows + 1
            /\ ConfirmRespond(r, 200)
       ELSE /\ ConfirmRespond(r, 500)
            /\ UNCHANGED <<credits, paymentRows>>
  /\ UNCHANGED <<imageQuality, detection, enriched, pipeVars, qualVars, shareVars,
                 intent, analyses, detections, reqVars, histVars>>

NextPay ==
  \/ \E r \in Requests : ConfirmReceive(r)
  \/ \E r \in Requests : ConfirmRetrieve(r)
  \/ \E r \in Requests : ConfirmSelectExisting(r)
  \/ \E r \in Requests : ConfirmTxUpdate(r)
  \/ \E r \in Requests : ConfirmTxInsertCommit(r)

SpecPay == InitPay /\ [][NextPay]_vars

\* ------------------------------------------- POST /api/share/:analysisId
\* Every request names the same analysis; each statement runs on its own.  A
\* request's token (24 random bytes) is told apart by the request's number.

InitShare ==
  /\ ownsAnalysis \in BOOLEAN
  /\ sharedResults = [r \in ShareRequests |-> "none"]
  /\ sharePc = [r \in ShareRequests |-> "start"]
  /\ shareResponse = [r \in ShareRequests |-> Undefined]
  /\ PayIdle
  /\ imageQuality = Undefined
  /\ detection = [confidenceScore |-> Undefined]
  /\ enriched = Undefined
  /\ PipeIdle
  /\ QualityIdle
  /\ UploadIdle

\* shared_results rows of the analysis with expires_at > NOW()
Unexpired == {t \in ShareRequests : sharedResults[t] = "live"}

ShareRespond(r, code, token) ==
  /\ shareResponse' = [shareResponse EXCEPT ![r] = <<code, token>>]
  /\ sharePc' = [sharePc EXCEPT ![r] = "done"]

ShareGoto(r, label) ==
  /\ sharePc' = [sharePc EXCEPT ![r] = label]
  /\ UNCHANGED shareResponse

\* req.db.connect(), then SELECT id FROM analyses WHERE id = ... AND user_id = ...
ShareOwnerCheck(r) ==
  /\ sharePc[r] = "start"
  /\ \E ok \in BOOLEAN :
       IF ~ok THEN ShareRespond(r, 500, 0)
       ELSE IF ~ownsAnalysis THEN ShareRespond(r, 404, 0)
       ELSE ShareGoto(r, "existing")
  /\ UNCHANGED <<imageQuality, detection, enriched, pipeVars, qualVars, payVars,
                 ownsAnalysis, sharedResults, dbVars, reqVars, histVars>>

\* SELECT ... FROM shared_results WHERE analysis_id = ... AND expires_at > NOW();
\* rows[0] is whichever row the database lists first
ShareSelectExisting(r) ==
  /\ sharePc[r] = "existing"
  /\ IF Unexpired # {}
     THEN \E t \in Unexpired : ShareRespond(r, 200, t)
     ELSE ShareGoto(r, "insert")
  /\ UNCHANGED <<imageQuality, detection, enriched, pipeVars, qualVars, payVars,
                 ownsAnalysis, sharedResults, dbVars, reqVars, histVars>>

\* INSERT INTO shared_results with expires_at = now + min(expiryDays, 90) days;
\* expiryDays comes from the request body and need not be positive
ShareInsert(r) ==
  /\ sharePc[r] = "insert"
  /\ \E ok \in BOOLEAN, positiveDays \in BOOLEAN :
       IF ok THEN /\ sharedResults' = [sharedResults EXCEPT ![r] =
                                         IF positiveDays THEN "live" ELSE "expired"]
                  /\ ShareRespond(r, 201, r)
             ELSE /\ ShareRespond(r, 500, 0)
                  /\ UNCHANGED sharedResults
  /\ UNCHANGED <<imageQuality, detection, enriched, pipeVars, qualVars, payVars,
                 ownsAnalysis, dbVars, reqVars, histVars>>

\* time passes beyond a row's expires_at
Expire(t) ==
  /\ sharedResults[t] = "live"
  /\ sharedResults' = [sharedResults EXCEPT ![t] = "expired"]
  /\ UNCHANGED <<imageQuality, detection, enriched, pipeVars, qualVars, payVars,
                 ownsAnalysis, sharePc, shareResponse, dbVars, reqVars, histVars>>

NextShare ==
  \/ \E r \in ShareRequests : ShareOwnerCheck(r)
  \/ \E r \in ShareRequests : ShareSelectExisting(r)
  \/ \E r \in ShareRequests : ShareInsert(r)
  \/ \E t \in ShareRequests : Expire(t)

SpecShare == InitShare /\ [][NextShare]_vars

\* =================================================================== claims
\* the calibrated detection, once enrichDetections has run
Enriched == enriched[1]

\* ---- C1 ----------------------------------------------------------------
\* C1 as stated: for every quality label and every confidence the provider
\* reported, the calibrated confidence is at most the reported confidence.
C1_NeverBoosts ==
  (enriched # Undefined /\ detection.confidenceScore # Undefined)
    => Enriched.confidenceScore <= detection.confidenceScore[1]

\* C1 amended: the calibrated confidence never exceeds the larger of the raw
\* confidence enrichDetections records and the floor 0.35; at or above the
\* floor calibration only penalizes, below it the result is the floor itself.
C1_NeverBoostsAboveFloor ==
  enriched # Undefined =>
    /\ Enriched.confidenceRaw >= 35 => Enriched.confidenceScore <= Enriched.confidenceRaw
    /\ Enriched.confidenceRaw < 35 => Enriched.confidenceScore = 35

C1_Witness ==
  /\ enriched # Undefined
  /\ imageQuality = Some("fair")
  /\ detection.confidenceScore = Some(80)
  /\ Enriched.confidenceScore = 72

\* ---- C2 ----------------------------------------------------------------
\* C2: for every quality label, unknown and missing ones included, and every
\* raw confidence, the calibrated confidence lies in [0.35, 0.99].
C2_FloorAndCeiling ==
  enriched # Undefined =>
    (Enriched.confidenceScore >= 35 /\ Enriched.confidenceScore <= 99)

C2_Witness ==
  /\ enriched # Undefined
  /\ imageQuality = Undefined
  /\ detection.confidenceScore = Some(10)
  /\ Enriched.confidenceScore = 35

\* ---- C3 ----------------------------------------------------------------
\* the penalty table as the specification gives it
C3_Penalty ==
  IF imageQuality = Some("excellent") THEN 0
  ELSE IF imageQuality = Some("good") THEN 2
  ELSE IF imageQuality = Some("fair") THEN 8
  ELSE IF imageQuality = Some("poor") THEN 18
  ELSE 5

\* C3: calibrateConfidence returns clamp(raw - penalty, 0.35, 0.99) with
\* penalty 0 for excellent, 0.02 good, 0.08 fair, 0.18 poor and 0.05 for any
\* other or missing label; excellent with raw 0.50 gives 0.50.
C3_PenaltyTable ==
  enriched # Undefined =>
    /\ Enriched.confidenceScore =
         Max(35, Min(99, Enriched.confidenceRaw - C3_Penalty))
    /\ (imageQuality = Some("excellent") /\ detection.confidenceScore = Some(50))
         => Enriched.confidenceScore = 50

\* ---- C4 ----------------------------------------------------------------
\* the threshold table as the specification gives it
C4_Threshold ==
  IF imageQuality = Some("excellent") THEN 45
  ELSE IF imageQuality = Some("good") THEN 50
  ELSE IF imageQuality = Some("fair") THEN 60
  ELSE IF imageQuality = Some("poor") THEN 72
  ELSE 55

\* C4: isReliableDetection equals (calibrated >= threshold[label]) with
\* threshold 0.45 excellent, 0.50 good, 0.60 fair, 0.72 poor and 0.55 for any
\* other or missing label; poor with raw 0.70 gives 0.52 and not reliable.
C4_ReliableIffAtThreshold ==
  enriched # Undefined =>
    /\ Enriched.isReliableDetection = (Enriched.confidenceScore >= C4_Threshold)
    /\ (imageQuality = Some("poor") /\ detection.confidenceScore = Some(70))
         => (Enriched.confidenceScore = 52 /\ ~Enriched.isReliableDetection)

C4_Witness ==
  /\ enriched # Undefined
  /\ imageQuality = Some("poor")
  /\ detection.confidenceScore = Some(70)
  /\ ~Enriched.isReliableDetection

C6_DetachedFailureRefunds ==
  \A r \in Requests :
    (handler = "detached" /\ pc[r] = "done" /\ analyses[r] = "failed") =>
      /\ refunded[r] = debited[r]
      /\ (\A q \in Requests \ {r} : pc[q] = "start") => credits = initCredits

\* ---- C7 ----------------------------------------------------------------
\* C7: with exactly 1 credit and no refund in between, at most one of the
\* concurrent upload requests debits the balance (no double-spend).
C7_NoDoubleSpend ==
  (initCredits = 1 /\ \A r \in Requests : refunded[r] = 0) =>
    Cardinality({r \in Requests : debited[r] > 0}) <= 1

\* ---- C8 ----------------------------------------------------------------
\* C8: in every reachable state the user's image_credits is >= 0.
C8_CreditsNeverNegative == credits >= 0

\* ---- C9 ----------------------------------------------------------------
\* C9: no run ends with the credit debited and no analysis row created, nor
\* with a row created and no debit.
C9_DebitIffRowCreated ==
  \A r \in Requests :
    pc[r] = "done" => ((debited[r] > 0) <=> (analyses[r] # "none"))

\* ---- C10 ---------------------------------------------------------------
\* C10: no run of an upload handler ends with its analysis record still in
\* processing; every record created reaches completed or failed.
C10_NoRunEndsInProcessing ==
  \A r \in Requests : pc[r] = "done" => analyses[r] # "processing"

\* ---- C11 ---------------------------------------------------------------
Terminal == {"completed", "failed"}

\* C11: completed and failed are absorbing: once an analysis record is
\* completed or failed no later step of any upload run changes its status, so
\* no record is ever set to both.
C11_TerminalStatusAbsorbing ==
  [][\A r \in Requests : analyses[r] \in Terminal => analyses'[r] = analyses[r]]_vars

C11_Witness ==
  \E r \in Requests, q \in Requests :
    /\ analyses[r] = "completed" /\ pc[r] = "done"
    /\ analyses[q] = "failed" /\ pc[q] = "done"

\* ---- C12 ---------------------------------------------------------------
\* a request whose handler (and detached task) has ended
Finished(r) == pc[r] \in {"done", "refused"}

\* C12: once all handlers have returned, the credits consumed from the
\* balance equal the number of analysis records whose status is not failed.
C12_LedgerConservation ==
  (\A r \in Requests : Finished(r)) =>
    initCredits - credits =
      Cardinality({r \in Requests : analyses[r] \in {"processing", "completed"}})

\* ---- C13 ---------------------------------------------------------------
\* the request was rejected as input: refused file, no file or invalid
\* fields (400), unknown user (404), no credit (402)
Rejected(r) == pc[r] = "refused" \/ response[r] \in {400, 402, 404}

\* C13: a request rejected as input has taken and given back no credit and
\* created no analysis or detection row, and the step that rejects it leaves
\* the balance and the records as they were.
C13_RejectionTouchesNothing ==
  /\ [](\A r \in Requests :
          Rejected(r) => /\ debited[r] = 0 /\ refunded[r] = 0
                         /\ analyses[r] = "none" /\ detections[r] = 0)
  /\ [][\A r \in Requests :
          (~Rejected(r) /\ Rejected(r)') =>
            (credits' = credits /\ analyses' = analyses /\ detections' = detections)]_vars

C13_Witness ==
  \E r \in Requests, q \in Requests :
    /\ response[r] = 402 /\ readCredits[r] = 0
    /\ debited[q] = 1 /\ analyses[q] # "none"

\* ---- C20 ---------------------------------------------------------------
\* C20: whenever a run's provider failure has been reported to the caller
\* (the 500 of the awaited handler, the failed status the detached handler
\* leaves for polling), that run's debit has been restored.
C20_RefundBeforeFailureReported ==
  \A r \in Requests :
    (aiFailed[r] /\ (response[r] = 500 \/ analyses[r] = "failed")) =>
      refunded[r] = debited[r]

\* ---- C21 ---------------------------------------------------------------
\* the handler positions from which an external call (the object-storage
\* upload, the AI provider) is started
ExternalCalls == {"cloud", "analyze", "task"}

\* the request has locked the user's row and its debit-and-create step is
\* neither complete nor given up
InDebitAndCreate(r) ==
  /\ lockTaken[r]
  /\ response[r] = 0
  /\ ~(debited[r] > 0 /\ analyses[r] # "none")

\* C21: no external call is started between a request's locking of the user's
\* row and the completion of its debit and analysis-row insert.
C21_NoExternalCallInsideDebitAndCreate ==
  \A r \in Requests : pc[r] \in ExternalCalls => ~InDebitAndCreate(r)

\* ---- C22 ---------------------------------------------------------------
\* C22: assessImageQuality ends by returning a report whichever single metric
\* could not be computed (the metadata read for the resolution, the sharpness
\* variance, the lighting mean); it never fails as a whole.
C22_AlwaysReports ==
  qpc \in {"returned", "thrown"} => (qpc = "returned" /\ qualityReport # Undefined)

\* ---- C23 ---------------------------------------------------------------
\* excellent > good > fair > poor
QualityRank == [excellent |-> 4, good |-> 3, fair |-> 2, poor |-> 1]

\* reliability of a raw confidence under a quality label, as enrichDetections
\* computes it
ReliableUnder(rawConfidence, label) ==
  isDetectionReliable(calibrateConfidence(rawConfidence, Some(label)), Some(label))

\* the least raw confidence that is reliable under a label
MinReliableRaw(label) ==
  CHOOSE c \in 0..MaxRaw :
    /\ ReliableUnder(c, label)
    /\ \A b \in 0..MaxRaw : ReliableUnder(b, label) => c <= b

\* C23: a detection that is reliable under a quality label is, for the same
\* raw confidence, reliable under every better label; and the least raw
\* confidence that is reliable strictly rises as quality falls.
C23_ReliabilityMonotoneInQuality ==
  /\ (enriched # Undefined /\ imageQuality # Undefined
        /\ imageQuality[1] \in QualityLabels /\ Enriched.isReliableDetection)
       => \A better \in QualityLabels :
            QualityRank[better] > QualityRank[imageQuality[1]]
              => ReliableUnder(Enriched.confidenceRaw, better)
  /\ \A q1, q2 \in QualityLabels :
       QualityRank[q1] > QualityRank[q2] => MinReliableRaw(q1) < MinReliableRaw(q2)

\* a detection reliable on a fair image that a poor image would have hidden
C23_Witness ==
  /\ enriched # Undefined
  /\ imageQuality = Some("fair")
  /\ Enriched.isReliableDetection
  /\ ~ReliableUnder(Enriched.confidenceRaw, "poor")

NamesNoEntry(d) ==
  /\ \A i \in 1..Len(PARASITE_DATABASE) : d.parasiteId # Some(PARASITE_DATABASE[i].id)
  /\ d.scientificName \in {Undefined, Some(<< >>)}
  /\ d.commonName \in {Undefined, Some(<< >>)}

\* C25: a detection whose parasiteId is no reference entry's id and which
\* carries no scientific or common name is matched to no entry: it gets no
\* treatment data and keeps the parasiteId the provider gave.
C25_UnmatchedStandsAlone ==
  (enriched # Undefined /\ NamesNoEntry(detection)) =>
    /\ Enriched.holisticTreatment = Undefined
    /\ Enriched.parasiteId = detection.parasiteId

\* ---- C26 ---------------------------------------------------------------
\* C26: the confidenceRaw recorded on a calibrated detection is the confidence
\* the provider reported, for every reported value from 0 to 1, and the
\* calibrated score is computed from that value.
C26_RawIsReported ==
  (enriched # Undefined /\ detection.confidenceScore # Undefined) =>
    /\ Enriched.confidenceRaw = detection.confidenceScore[1]
    /\ Enriched.confidenceScore =
         calibrateConfidence(detection.confidenceScore[1], imageQuality)

\* ---- C27 ---------------------------------------------------------------
\* the calibration fields of the detections of a result
CalibrationOf(res) ==
  [i \in 1..Len(res.detections) |->
     [confidenceScore |-> res.detections[i].confidenceScore,
      confidenceRaw |-> res.detections[i].confidenceRaw,
      isReliableDetection |-> res.detections[i].isReliableDetection]]

\* every application so far was given the report the result was produced with
SameQualityUpTo(n) == \A i \in 1..n : recalibrated[i].quality = imageQuality

\* C27: recalibrateResult with the unchanged quality report leaves every
\* detection's confidenceScore, confidenceRaw and isReliableDetection as
\* analyzeImage returned them, and a second application returns what the
\* first returned.
C27_RecalibrateIdempotent ==
  /\ \A n \in 1..Len(recalibrated) :
       SameQualityUpTo(n) => CalibrationOf(recalibrated[n].result) = CalibrationOf(result[1])
  /\ (Len(recalibrated) >= 2 /\ SameQualityUpTo(2))
       => recalibrated[2].result = recalibrated[1].result

\* ---- C28 ---------------------------------------------------------------
\* C28: detection rows exist only for analyses in status completed, and a
\* completed analysis has every detection analyzeImage returned persisted; no
\* analysis in status processing or failed has detection rows.
C28_DetectionsOnlyOnCompleted ==
  \A r \in Requests :
    /\ detections[r] > 0 => analyses[r] = "completed"
    /\ analyses[r] = "completed" => detections[r] = aiDetections[r]

C30_AtMostOneUnexpiredLink ==
  /\ Cardinality(Unexpired) <= 1
  /\ \A r \in ShareRequests :
       (shareResponse[r] = <<201, r>> /\ sharedResults[r] = "live") => Unexpired = {r}

\* ---- C14 ---------------------------------------------------------------
\* analyzeImage has returned or thrown
PipeEnded == apc \in {"returned", "thrown"}
CallsTo(provider) == Cardinality({i \in 1..Len(callLog) : callLog[i].provider = provider})
SameArguments ==
  \A i \in 1..Len(callLog), j \in 1..Len(callLog) :
    callLog[i].image = callLog[j].image /\ callLog[i].metadata = callLog[j].metadata

\* C14 as stated: the fallback provider is called if and only if the primary
\* attempt failed, once and with the primary's image and metadata; no
\* provider is called twice; when no provider gave a reply analyzeImage throws.
C14_FallbackIffPrimaryFailed ==
  /\ CallsTo("claude") <= 1 /\ CallsTo("gpt-4o") <= 1
  /\ SameArguments
  /\ PipeEnded => ((CallsTo("gpt-4o") = 1) <=> primaryFailed)
  /\ (PipeEnded /\ aiResult = Undefined) => (apc = "thrown" /\ result = Undefined)

\* C14 amended: the fallback provider is called if and only if the primary
\* attempt failed and a fallback is configured (OPENAI_API_KEY set, which the
\* backend analyzeImage tests; services/aiAnalysis.js always has one); the
\* rest as stated.
C14_FallbackIffPrimaryFailedAndConfigured ==
  /\ CallsTo("claude") <= 1 /\ CallsTo("gpt-4o") <= 1
  /\ SameArguments
  /\ PipeEnded => ((CallsTo("gpt-4o") = 1) <=> (primaryFailed /\ hasFallbackKey))
  /\ (PipeEnded /\ aiResult = Undefined) => (apc = "thrown" /\ result = Undefined)

C14_Witness ==
  /\ apc = "thrown" /\ primaryFailed
  /\ Len(callLog) = 2
  /\ callLog[1].provider = "claude" /\ callLog[2].provider = "gpt-4o"

\* ---- C15 ---------------------------------------------------------------
\* C15: a provider reply without the expected shape (parseable JSON with no
\* detections array) is a provider failure and never yields a returned
\* analysis result.
C15_MalformedReplyIsFailure ==
  apc = "returned" => aiResult[1].detections # Undefined

\* ---- C16 ---------------------------------------------------------------
\* the first of the reference entries at the given indexes
FirstEntry(hits) ==
  IF hits = {} THEN Undefined
  ELSE Some(PARASITE_DATABASE[CHOOSE i \in hits : \A j \in hits : i <= j])

\* the entry the priority order designates: by id, else by scientific name,
\* else by common name, else none
PriorityEntry(d) ==
  LET entries == 1..Len(PARASITE_DATABASE)
      byId == {i \in entries : Some(PARASITE_DATABASE[i].id) = d.parasiteId}
      bySci == {i \in entries :
                  /\ d.scientificName # Undefined
                  /\ includes(toLowerCase(PARASITE_DATABASE[i].scientificName),
                              toLowerCase(d.scientificName[1]))}
      byCom == {i \in entries :
                  /\ d.commonName # Undefined
                  /\ includes(toLowerCase(PARASITE_DATABASE[i].commonName),
                              toLowerCase(d.commonName[1]))}
  IN  IF byId # {} THEN FirstEntry(byId)
      ELSE IF bySci # {} THEN FirstEntry(bySci)
      ELSE FirstEntry(byCom)

\* C16: the enriched detection carries the reference entry designated by the
\* priority order: the entry whose id equals the detection's parasiteId,
\* otherwise the first entry matching the scientific name, otherwise the first
\* matching the common name, otherwise none (and then the detection's own id).
C16_MatchingFollowsPriority ==
  enriched # Undefined =>
    LET entry == PriorityEntry(detection)
    IN  /\ Enriched.parasiteId = IF entry # Undefined THEN Some(entry[1].id)
                                 ELSE detection.parasiteId
        /\ Enriched.holisticTreatment = IF entry # Undefined THEN Some(entry[1].holistic)
                                        ELSE Undefined

\* ---- C19 ---------------------------------------------------------------
\* C19: in every report assessImageQuality returns, the three scores and the
\* overall quality lie in [0,1], the overall quality is 0.4 resolution + 0.35
\* sharpness + 0.25 lighting, and the label is excellent iff overall >= 0.8,
\* good iff 0.6 <= overall < 0.8, fair iff 0.4 <= overall < 0.6, poor otherwise.
C19_WeightedSumAndLabel ==
  qualityReport # Undefined =>
    LET q == qualityReport[1]
    IN  /\ q.resolutionScore \in 0..100
        /\ q.sharpnessScore \in 0..100
        /\ q.lightingScore \in 0..100
        /\ q.overallQuality =
             40 * q.resolutionScore + 35 * q.sharpnessScore + 25 * q.lightingScore
        /\ q.overallQuality \in 0..10000
        /\ (q.qualityLabel = "excellent") <=> (q.overallQuality >= 8000)
        /\ (q.qualityLabel = "good") <=>
             (q.overallQuality >= 6000 /\ q.overallQuality < 8000)
        /\ (q.qualityLabel = "fair") <=>
             (q.overallQuality >= 4000 /\ q.overallQuality < 6000)
        /\ (q.qualityLabel = "poor") <=> (q.overallQuality < 4000)

\* a report built from both substituted defaults, exactly on the good threshold
C19_Witness ==
  /\ qpc = "returned"
  /\ buffer.variance = Undefined
  /\ buffer.mean = Undefined
  /\ qualityReport[1].sharpnessScore = 60
  /\ qualityReport[1].lightingScore = 60
  /\ qualityReport[1].overallQuality = 6000
  /\ qualityReport[1].qualityLabel = "good"

\* ---- C17 ---------------------------------------------------------------
C17_Rank(u) ==
  IF u = "emergency" THEN 4 ELSE IF u = "high" THEN 3
  ELSE IF u = "moderate" THEN 2 ELSE 1

\* every enriched detection of the returned result, reliable or not
ReturnedDetections == result[1].detections \o result[1].lowConfidenceDetections
ReliableUrgencies ==
  {ReturnedDetections[i].urgencyLevel[1] :
     i \in {j \in 1..Len(ReturnedDetections) : ReturnedDetections[j].isReliableDetection}}

\* C17: overallUrgency is the maximum under emergency > high > moderate > low
\* of urgencyLevel over the detections with isReliableDetection true, low
\* when there is none; reliable urgencies [moderate, emergency, low] give
\* emergency.
C17_UrgencyIsMaxOverReliable ==
  (impl = "service" /\ apc = "returned") =>
    /\ ReliableUrgencies = {} => result[1].overallUrgency = "low"
    /\ ReliableUrgencies # {} =>
         /\ result[1].overallUrgency \in ReliableUrgencies
         /\ \A u \in ReliableUrgencies : C17_Rank(u) <= C17_Rank(result[1].overallUrgency)
    /\ ( /\ Len(result[1].detections) = 3
         /\ result[1].detections[1].urgencyLevel = Some("moderate")
         /\ result[1].detections[2].urgencyLevel = Some("emergency")
         /\ result[1].detections[3].urgencyLevel = Some("low") )
         => result[1].overallUrgency = "emergency"

C17_Witness ==
  /\ impl = "service" /\ apc = "returned"
  /\ Len(result[1].detections) = 2
  /\ result[1].detections[1].urgencyLevel = Some("moderate")
  /\ result[1].detections[2].urgencyLevel = Some("low")
  /\ Len(result[1].lowConfidenceDetections) = 1
  /\ result[1].lowConfidenceDetections[1].urgencyLevel = Some("emergency")
  /\ result[1].overallUrgency = "moderate"

\* ---- C18 ---------------------------------------------------------------
\* the detections the provider returned, as analyzeImage reads them
ProviderList == IF aiResult[1].detections = Undefined THEN << >> ELSE aiResult[1].detections[1]
PlacesIn(list, ref) == {i \in 1..Len(list) : list[i].ref = ref}

\* C18: every detection the provider returned is in exactly one of the
\* result's two lists: detections when isReliableDetection is true,
\* lowConfidenceDetections when it is false.
C18_ReliablePartition ==
  (impl = "service" /\ apc = "returned") =>
    /\ Len(result[1].detections) + Len(result[1].lowConfidenceDetections) = Len(ProviderList)
    /\ \A k \in 1..Len(ProviderList) :
         Cardinality(PlacesIn(result[1].detections, ProviderList[k].ref))
           + Cardinality(PlacesIn(result[1].lowConfidenceDetections, ProviderList[k].ref)) = 1
    /\ \A i \in 1..Len(result[1].detections) : result[1].detections[i].isReliableDetection
    /\ \A i \in 1..Len(result[1].lowConfidenceDetections) :
         ~result[1].lowConfidenceDetections[i].isReliableDetection

C18_Witness ==
  /\ impl = "service" /\ apc = "returned"
  /\ Len(result[1].detections) >= 1
  /\ Len(result[1].lowConfidenceDetections) >= 1

====
